---- MODULE Spec2Model ----
(***************************************************************************)
(* Model of the ILI9328 SPI driver  src/spytft/ili9328.py  (class          *)
(* Ili9328Spi).  The driver is single threaded and every method is         *)
(* straight-line code, so each public method is one action.  Everything    *)
(* the driver does to the outside world (SPI device, chip-select pin,      *)
(* reset pin, sleeps) is recorded, in program order, in the event log      *)
(* `log` of the most recent public call.                                   *)
(***************************************************************************)
EXTENDS Integers, Sequences, FiniteSets, TLC

VARIABLES
    spi_speed_hz,    \* self.spi_speed_hz
    IMAGE_WIDTH,     \* self.IMAGE_WIDTH
    IMAGE_HEIGHT,    \* self.IMAGE_HEIGHT
    BITS_PER_PIXEL,  \* self.BITS_PER_PIXEL
    call,            \* the most recent public call and its arguments
    log,             \* events of the most recent public call, in order
    result,          \* value returned by the most recent public call
    ctrl             \* the ILI9328 controller as driven by the bus so far

vars == <<spi_speed_hz, IMAGE_WIDTH, IMAGE_HEIGHT, BITS_PER_PIXEL,
          call, log, result, ctrl>>

----------------------------------------------------------------------------
(* Bounds of the model *)

\* buffers of every shape 1..MaxW x 1..MaxH are drawn
MaxW == 2
MaxH == 2

----------------------------------------------------------------------------
(* Program constants *)

PIN_ACTIVE   == 0          \* b'0'
PIN_INACTIVE == 1          \* b'1'
spibus_num    == 1
spidevice_num == 0
DefaultSpeedHz == 500000   \* 500*1000
SampleSpeedHz  == 1000000  \* 1*1000*1000
MaxSpeedHz     == 10000000 \* MAX 10MHz
PanelWidth  == 240
PanelHeight == 320
PanelBpp    == 16
SpiMode3    == 3           \* 0b11
Uint8Mod    == 256         \* np.uint8

----------------------------------------------------------------------------
(* Integer helpers: Python / numpy operators on non-negative integers *)

Pow2(n) == <<1, 2, 4, 8, 16, 32, 64, 128, 256>>[n + 1]

\* a >> n
Shr(a, n) == a \div Pow2(n)

\* a << n on np.uint8 (wraps modulo 256)
Shl8(a, n) == (a * Pow2(n)) % Uint8Mod

RECURSIVE BitOr(_, _)
BitOr(a, b) ==
    IF a = 0 THEN b
    ELSE IF b = 0 THEN a
    ELSE (IF a % 2 = 1 \/ b % 2 = 1 THEN 1 ELSE 0)
         + 2 * BitOr(a \div 2, b \div 2)

RECURSIVE BitAnd(_, _)
BitAnd(a, b) ==
    IF a = 0 \/ b = 0 THEN 0
    ELSE (IF a % 2 = 1 /\ b % 2 = 1 THEN 1 ELSE 0)
         + 2 * BitAnd(a \div 2, b \div 2)

Min(a, b) == IF a < b THEN a ELSE b
Max(a, b) == IF a > b THEN a ELSE b

\* int.to_bytes(2, byteorder='big'); raises OverflowError unless can_to_bytes
can_to_bytes(v) == 0 <= v /\ v <= 65535
to_bytes(v) == <<v \div 256, v % 256>>

----------------------------------------------------------------------------
(* Events *)

Ev(op, a, d) == [op |-> op, a |-> a, d |-> d]

\* an exception leaves the running call: the last event of its events
Raised(events) == events # <<>> /\ events[Len(events)].op = "raise"

\* statement sequencing: b runs unless a raised
Then(a, b) == IF Raised(a) THEN a ELSE a \o b

\* events on the SPI bus: chip-select changes and byte transfers
IsBusEv(e) == e.op \in {"cs", "writebytes", "writebytes2"}
IsSpiEv(e) == e.op \in {"writebytes", "writebytes2"}
\* events on the wires of the display: the bus and the reset line
IsWireEv(e) == IsBusEv(e) \/ e.op = "rst"

----------------------------------------------------------------------------
(* Pixel buffers: [w, h, px] with px[row][col] = <<R, G, B>>, 1-based *)

NoBuf == [w |-> 0, h |-> 0, px |-> <<>>]

\* RGB888 -> RGB565, the two bytes of one pixel
red(p)   == Shr(p[1], 3) % Uint8Mod
green(p) == Shr(p[2], 2) % Uint8Mod
blue(p)  == Shr(p[3], 3) % Uint8Mod

\* faulty variant of rgb565: green reduced to 5 bits
rgb565_green5(p) ==
    << BitOr(Shl8(red(p), 3), Shr(Shr(p[2], 3), 3)),
       BitOr(blue(p), Shl8(BitAnd(Shr(p[2], 3), 7), 5)) >>

\* faulty variant of rgb565: blue is not reduced to 5 bits
rgb565_blue8(p) ==
    << BitOr(Shl8(red(p), 3), Shr(green(p), 3)),
       BitOr(p[3], Shl8(BitAnd(green(p), 7), 5)) >>

rgb565(p) ==
    << BitOr(Shl8(red(p), 3), Shr(green(p), 3)),
       BitOr(blue(p), Shl8(BitAnd(green(p), 7), 5)) >>

\* the packed h x w x 2 array of a buffer
rgb565_array(buf) ==
    [r \in 1..buf.h |-> [c \in 1..buf.w |-> rgb565(buf.px[r][c])]]

----------------------------------------------------------------------------
(* Ili9328Spi.write_cmd / write_gram: the events of one call *)

\* faulty variant of spi_init: the speed given at construction is not replaced
spi_init_default(speed) ==
    << Ev("spi_open", 0, <<spibus_num, spidevice_num>>),
       Ev("spi_speed", DefaultSpeedHz, <<>>),
       Ev("spi_mode", SpiMode3, <<>>) >>

\* spi = spidev.SpiDev(); spi.open(...); spi.max_speed_hz = ...; spi.mode = 0b11
spi_init(speed) ==
    << Ev("spi_open", 0, <<spibus_num, spidevice_num>>),
       Ev("spi_speed", speed, <<>>),
       Ev("spi_mode", SpiMode3, <<>>) >>

\* leaving the `with open(self.spi_cs_pin)` block by an exception closes the
\* pin file and skips spi.close()
cs_raise == << Ev("cs_close", 0, <<>>), Ev("raise", 0, <<>>) >>

\* faulty variant of write_cmd: chip-select is not released between the two frames
write_cmd_one_frame(regaddr, data16, speed) ==
    << Ev("write_cmd", regaddr, <<data16>>) >>
    \o spi_init(speed)
    \o << Ev("cs_open", 0, <<>>),
          Ev("cs", PIN_ACTIVE, <<>>),
          Ev("writebytes", 0, <<112>> \o to_bytes(regaddr)),
          Ev("writebytes", 0, <<114>> \o to_bytes(data16)),
          Ev("cs", PIN_INACTIVE, <<>>),
          Ev("cs_close", 0, <<>>),
          Ev("spi_close", 0, <<>>),
          Ev("ret", 0, <<>>) >>

write_cmd(regaddr, data16, speed) ==
    << Ev("write_cmd", regaddr, <<data16>>) >>
    \o spi_init(speed)
    \o << Ev("cs_open", 0, <<>>),
          \* set reg index
          Ev("cs", PIN_ACTIVE, <<>>) >>
    \o (IF ~can_to_bytes(regaddr) THEN cs_raise
        ELSE
       << Ev("writebytes", 0, <<112>> \o to_bytes(regaddr)),   \* 0x70
          Ev("cs", PIN_INACTIVE, <<>>),
          \* set reg data
          Ev("cs", PIN_ACTIVE, <<>>) >>
    \o (IF ~can_to_bytes(data16) THEN cs_raise
        ELSE
       << Ev("writebytes", 0, <<114>> \o to_bytes(data16)),    \* 0x72
          Ev("cs", PIN_INACTIVE, <<>>),
          Ev("cs_close", 0, <<>>),
          Ev("spi_close", 0, <<>>),
          Ev("ret", 0, <<>>) >>))

\* faulty variant of gram_frame: the array is flattened column by column
gram_frame_by_column(image_array) ==
    LET h == Len(image_array)
        w == IF h = 0 THEN 0 ELSE Len(image_array[1])
    IN  [k \in 1..(1 + 2 * w * h) |->
            IF k = 1 THEN 114
            ELSE LET i == k - 2
                     p == i \div 2
                 IN  image_array[(p % h) + 1][(p \div h) + 1][(i % 2) + 1]]

\* np.insert(image_array, 0, 0x72): 0x72, then the array flattened in C order
gram_frame(image_array) ==
    LET h == Len(image_array)
        w == IF h = 0 THEN 0 ELSE Len(image_array[1])
    IN  [k \in 1..(1 + 2 * w * h) |->
            IF k = 1 THEN 114
            ELSE LET i == k - 2
                     p == i \div 2
                 IN  image_array[(p \div w) + 1][(p % w) + 1][(i % 2) + 1]]

\* faulty variant of write_gram: a bus session opened earlier is used and left open
write_gram_shared(image_array, speed) ==
    << Ev("write_gram", 0, <<>>),
       Ev("cs_open", 0, <<>>),
       Ev("cs", PIN_ACTIVE, <<>>),
       Ev("writebytes", 0, <<112, 0, 34>>),
       Ev("cs", PIN_INACTIVE, <<>>),
       Ev("cs", PIN_ACTIVE, <<>>),
       Ev("writebytes2", 0, gram_frame(image_array)),
       Ev("cs", PIN_INACTIVE, <<>>),
       Ev("cs_close", 0, <<>>),
       Ev("ret", 0, <<>>) >>

write_gram(image_array, speed) ==
    << Ev("write_gram", 0, <<>>) >>
    \o spi_init(speed)
    \o << Ev("cs_open", 0, <<>>),
          \* set reg index
          Ev("cs", PIN_ACTIVE, <<>>),
          Ev("writebytes", 0, <<112, 0, 34>>),                 \* 0x70 0x00 0x22
          Ev("cs", PIN_INACTIVE, <<>>),
          \* send GRAM data
          Ev("cs", PIN_ACTIVE, <<>>),
          Ev("writebytes2", 0, gram_frame(image_array)),
          Ev("cs", PIN_INACTIVE, <<>>),
          Ev("cs_close", 0, <<>>),
          Ev("spi_close", 0, <<>>),
          Ev("ret", 0, <<>>) >>

----------------------------------------------------------------------------
(* Ili9328Spi.block_image / image: the events of one call *)

\* min(max(v, 0), dim - 1)
clamp(v, dim) == Min(Max(v, 0), dim - 1)

\* faulty variant of origin_y: clamped to the other dimension
origin_y_width(y0, ih) == clamp(y0, PanelWidth)

\* faulty variant of end_x: the end is one past the last column
end_x_one_past(x0, width, iw) == clamp(clamp(x0, iw) + width, iw)

\* faulty variant of end_x, end_y: the end is not clamped
end_x_unclamped(x0, width, iw)  == clamp(x0, iw) + width - 1
end_y_unclamped(y0, height, ih) == clamp(y0, ih) + height - 1

\* faulty variant of end_x, end_y: the end is computed from the requested origin
end_x_from_requested(x0, width, iw)  == clamp(x0 + width  - 1, iw)
end_y_from_requested(y0, height, ih) == clamp(y0 + height - 1, ih)

\* upper left corner written to the controller
origin_x(x0, iw) == clamp(x0, iw)
origin_y(y0, ih) == clamp(y0, ih)

\* lower right corner written to the controller
end_x(x0, width, iw)  == clamp(origin_x(x0, iw) + width  - 1, iw)
end_y(y0, height, ih) == clamp(origin_y(y0, ih) + height - 1, ih)

\* faulty variant of block_image: the GRAM address counter is not set
block_image_no_address(x0, y0, buf, speed, iw, ih) ==
    Then(<< Ev("block_image", 0, <<>>) >>,
    Then(write_cmd(80, origin_x(x0, iw), speed),
    Then(write_cmd(82, origin_y(y0, ih), speed),
    Then(write_cmd(81, end_x(x0, buf.w, iw), speed),
    Then(write_cmd(83, end_y(y0, buf.h, ih), speed),
    Then(write_gram(rgb565_array(buf), speed),
         << Ev("ret", 0, <<>>) >>))))))

\* faulty variant of block_image: the GRAM address counter is set to the origin
\* of the panel
block_image_address_zero(x0, y0, buf, speed, iw, ih) ==
    Then(<< Ev("block_image", 0, <<>>) >>,
    Then(write_cmd(32, 0, speed),
    Then(write_cmd(33, 0, speed),
    Then(write_cmd(80, origin_x(x0, iw), speed),
    Then(write_cmd(82, origin_y(y0, ih), speed),
    Then(write_cmd(81, end_x(x0, buf.w, iw), speed),
    Then(write_cmd(83, end_y(y0, buf.h, ih), speed),
    Then(write_gram(rgb565_array(buf), speed),
         << Ev("ret", 0, <<>>) >>))))))))

\* faulty variant of block_image: the window is written axis by axis
block_image_by_axis(x0, y0, buf, speed, iw, ih) ==
    Then(<< Ev("block_image", 0, <<>>) >>,
    Then(write_cmd(32, origin_x(x0, iw), speed),
    Then(write_cmd(33, origin_y(y0, ih), speed),
    Then(write_cmd(80, origin_x(x0, iw), speed),
    Then(write_cmd(81, end_x(x0, buf.w, iw), speed),
    Then(write_cmd(82, origin_y(y0, ih), speed),
    Then(write_cmd(83, end_y(y0, buf.h, ih), speed),
    Then(write_gram(rgb565_array(buf), speed),
         << Ev("ret", 0, <<>>) >>))))))))

block_image(x0, y0, buf, speed, iw, ih) ==
    Then(<< Ev("block_image", 0, <<>>) >>,
    Then(write_cmd(32, origin_x(x0, iw), speed),            \* 0x20
    Then(write_cmd(33, origin_y(y0, ih), speed),            \* 0x21
    Then(write_cmd(80, origin_x(x0, iw), speed),            \* 0x50
    Then(write_cmd(82, origin_y(y0, ih), speed),            \* 0x52
    Then(write_cmd(81, end_x(x0, buf.w, iw), speed),        \* 0x51
    Then(write_cmd(83, end_y(y0, buf.h, ih), speed),        \* 0x53
    Then(write_gram(rgb565_array(buf), speed),
         << Ev("ret", 0, <<>>) >>))))))))

\* faulty variant of image: a buffer that is not of the panel's size is refused
image_size_checked(buf, speed, iw, ih) ==
    Then(<< Ev("image", 0, <<>>) >>,
         IF buf.w = iw /\ buf.h = ih
         THEN Then(block_image(0, 0, buf, speed, iw, ih),
                   << Ev("ret", 0, <<>>) >>)
         ELSE << Ev("raise", 0, <<>>) >>)

\* faulty variant of image: the display is initialized again before the draw
image_reinit(buf, speed, iw, ih) ==
    Then(<< Ev("image", 0, <<>>) >>,
    Then(<< Ev("init_ili9328", 0, <<>>),
            Ev("rst_open", 0, <<>>),
            Ev("rst", PIN_ACTIVE, <<>>),
            Ev("sleep", 10, <<>>),
            Ev("rst", PIN_INACTIVE, <<>>),
            Ev("rst_close", 0, <<>>),
            Ev("ret", 0, <<>>) >>,
    Then(block_image(0, 0, buf, speed, iw, ih),
         << Ev("ret", 0, <<>>) >>)))

image(buf, speed, iw, ih) ==
    Then(<< Ev("image", 0, <<>>) >>,
    Then(block_image(0, 0, buf, speed, iw, ih),
         << Ev("ret", 0, <<>>) >>))

----------------------------------------------------------------------------
(* Ili9328Spi.init_ili9328 *)

W(a, v)  == [k |-> "write", a |-> a, v |-> v]
\* faulty variant of Sleep: the delay is a tenth of what the sequence needs
Sleep_tenth(ms) == [k |-> "sleep", a |-> ms \div 10, v |-> 0]

Sleep(ms) == [k |-> "sleep", a |-> ms, v |-> 0]

\* the register writes and sleeps (in ms) after the reset, in program order
init_sequence ==
    << \* Start Initial Sequence
       W(\h0001, \h0100), W(\h0002, \h0700), W(\h0003, \h1030),
       W(\h0004, \h0000), W(\h0008, \h0207), W(\h0009, \h0000),
       W(\h000A, \h0000), W(\h000C, \h0000), W(\h000D, \h0000),
       W(\h000F, \h0000),
       \* Power On sequence
       W(\h0010, \h0000), W(\h0011, \h0007), W(\h0012, \h0000),
       W(\h0013, \h0000), W(\h0007, \h0001),
       Sleep(200),
       W(\h0010, \h1490), W(\h0011, \h0227),
       Sleep(50),
       W(\h0012, \h001C),
       Sleep(50),
       W(\h0013, \h1A00), W(\h0029, \h0025), W(\h002B, \h000C),
       Sleep(50),
       W(\h0020, \h0000), W(\h0021, \h0000),
       \* Adjust the Gamma Curve
       W(\h0030, \h0000), W(\h0031, \h0506), W(\h0032, \h0104),
       W(\h0035, \h0207), W(\h0036, \h000F), W(\h0037, \h0306),
       W(\h0038, \h0102), W(\h0039, \h0707), W(\h003C, \h0702),
       W(\h003D, \h1604),
       \* Set GRAM area
       W(\h0050, \h0000), W(\h0051, \h00EF), W(\h0052, \h0000),
       W(\h0053, \h013F), W(\h0060, \hA700), W(\h0061, \h0001),
       W(\h006A, \h0000),
       \* Partial Display Control
       W(\h0080, \h0000), W(\h0081, \h0000), W(\h0082, \h0000),
       W(\h0083, \h0000), W(\h0084, \h0000), W(\h0085, \h0000),
       \* Panel Control
       W(\h0090, \h0010), W(\h0092, \h0600),
       \* Power On sequence
       W(\h0007, \h0133) >>

\* init spi cs pin, then reset ILI9328
reset_pulse ==
    << Ev("cs_open", 0, <<>>),
       Ev("cs", PIN_INACTIVE, <<>>),
       Ev("cs_close", 0, <<>>),
       Ev("rst_open", 0, <<>>),
       Ev("rst", PIN_INACTIVE, <<>>),
       Ev("sleep", 10, <<>>),
       Ev("rst", PIN_ACTIVE, <<>>),
       Ev("sleep", 10, <<>>),
       Ev("rst", PIN_INACTIVE, <<>>),
       Ev("sleep", 50, <<>>),
       Ev("rst_close", 0, <<>>) >>

\* the events of init_sequence[lo..hi], in order
RECURSIVE init_writes(_, _, _)
init_writes(lo, hi, speed) ==
    IF lo > hi THEN <<>>
    ELSE IF lo = hi
    THEN (IF init_sequence[lo].k = "write"
          THEN write_cmd(init_sequence[lo].a, init_sequence[lo].v, speed)
          ELSE << Ev("sleep", init_sequence[lo].a, <<>>) >>)
    ELSE LET mid == (lo + hi) \div 2
         IN  Then(init_writes(lo, mid, speed), init_writes(mid + 1, hi, speed))

\* faulty variant of init_ili9328: the registers are written before the reset
init_ili9328_reset_last(speed) ==
    Then(<< Ev("init_ili9328", 0, <<>>) >>,
    Then(init_writes(1, Len(init_sequence), speed),
    Then(reset_pulse,
         << Ev("ret", 0, <<>>) >>)))

init_ili9328(speed) ==
    Then(<< Ev("init_ili9328", 0, <<>>) >> \o reset_pulse,
    Then(init_writes(1, Len(init_sequence), speed),
         << Ev("ret", 0, <<>>) >>))

----------------------------------------------------------------------------
(* Failures.  spidev and the GPIO files raise an exception when an open, a  *)
(* configuration, a write or a transfer fails.  The driver has no try, no   *)
(* except and no finally: the exception leaves every running method, and    *)
(* only the `with open(...)` blocks it passes close their pin file.         *)

\* the steps that can fail
Failable(e) ==
    e.op \in {"spi_open", "spi_speed", "spi_mode", "cs_open", "cs",
              "rst_open", "rst", "writebytes", "writebytes2"}

\* the places of a run where a failure can be injected
FaultSites(events) == {i \in 1..Len(events) : Failable(events[i])}

\* a pin file is open after events: opened and not yet closed
Held(events, open, close) ==
    Len(SelectSeq(events, LAMBDA e : e.op = open))
        > Len(SelectSeq(events, LAMBDA e : e.op = close))

\* the step that failed: it had no effect
Failed(e) == Ev("fail_" \o e.op, e.a, <<>>)
IsFail(e) ==
    e.op \in {"fail_spi_open", "fail_spi_speed", "fail_spi_mode",
              "fail_cs_open", "fail_cs", "fail_rst_open", "fail_rst",
              "fail_writebytes", "fail_writebytes2"}

\* the `with` blocks that the exception passes close their files
Unwind(pre) ==
    (IF Held(pre, "cs_open", "cs_close")
     THEN << Ev("cs_close", 0, <<>>) >> ELSE <<>>)
    \o (IF Held(pre, "rst_open", "rst_close")
        THEN << Ev("rst_close", 0, <<>>) >> ELSE <<>>)
    \o << Ev("raise", 0, <<>>) >>

\* faulty variant of Inject: the failed step is tried again and the call goes on
Inject_retried(events, i) ==
    IF i = 0 THEN events
    ELSE SubSeq(events, 1, i - 1) \o << Failed(events[i]) >>
         \o SubSeq(events, i, Len(events))

\* faulty variant of Inject: the exception is swallowed and the call goes on
Inject_swallowed(events, i) ==
    IF i = 0 THEN events
    ELSE SubSeq(events, 1, i - 1) \o << Failed(events[i]) >>
         \o SubSeq(events, i + 1, Len(events))

\* the events of a call whose step at place i fails (i = 0: no step fails),
\* given the events of the call when nothing fails
Inject(events, i) ==
    IF i = 0 THEN events
    ELSE LET pre == SubSeq(events, 1, i - 1)
         IN  pre \o << Failed(events[i]) >> \o Unwind(pre)

----------------------------------------------------------------------------
(* The ILI9328 controller, as far as the driver's addressing depends on it: *)
(* a frame is the bytes clocked in while chip-select is active.  Start byte *)
(* 0x70 loads the index register, start byte 0x72 writes the register the   *)
(* index selects; index 0x22 is the GRAM port, whose writes go to the       *)
(* address counter, which advances row-major inside the address window.     *)
(* `streams` are the GRAM streams of the most recent public call.           *)

WindowRegs == {32, 33, 80, 81, 82, 83}   \* 0x20 0x21 0x50 0x51 0x52 0x53

ctrl_reset ==
    [cs      |-> PIN_INACTIVE,
     frame   |-> <<>>,
     ir      |-> 0,
     reg     |-> [a \in WindowRegs |->
                    CASE a = 81 -> PanelWidth - 1
                      [] a = 83 -> PanelHeight - 1
                      [] OTHER  -> 0],
     ac      |-> <<0, 0>>,
     streams |-> <<>>]

\* the cell that the k-th (0-based) pixel of a GRAM stream is written to,
\* for window registers reg and an address counter that started at ac
gram_cell(reg, ac, k) ==
    LET hsa == reg[80]
        hea == reg[81]
        vsa == reg[82]
        vea == reg[83]
        ww  == hea - hsa + 1
        wh  == vea - vsa + 1
        o   == (ac[2] - vsa) * ww + (ac[1] - hsa)
        i   == (o + k) % (ww * wh)
    IN  << hsa + (i % ww), vsa + (i \div ww) >>

ac_in_window(reg, ac) ==
    /\ reg[80] <= ac[1] /\ ac[1] <= reg[81]
    /\ reg[82] <= ac[2] /\ ac[2] <= reg[83]

\* a complete frame arrives at the controller
ctrl_frame(c, f) ==
    IF Len(f) < 3 THEN c
    ELSE IF f[1] = 112 THEN [c EXCEPT !.ir = f[2] * 256 + f[3]]
    ELSE IF f[1] # 114 THEN c
    ELSE IF c.ir = 34
    THEN \* GRAM port: the pixels go to the cells from the address counter on
         LET n == (Len(f) - 1) \div 2
         IN  IF ~ac_in_window(c.reg, c.ac) THEN c
             ELSE [c EXCEPT
                     !.streams = Append(c.streams,
                                   [reg |-> c.reg, ac |-> c.ac, n |-> n,
                                    bytes |-> f]),
                     !.ac = gram_cell(c.reg, c.ac, n)]
    ELSE LET v == f[2] * 256 + f[3]
         IN  IF c.ir \in WindowRegs
             THEN [c EXCEPT !.reg[c.ir] = v,
                            !.ac = IF c.ir = 32 THEN <<v, c.ac[2]>>
                                   ELSE IF c.ir = 33 THEN <<c.ac[1], v>>
                                   ELSE c.ac]
             ELSE c

\* the GRAM writes of one stream: cell and the two bytes written to it
gram_writes(st) ==
    [k \in 1..st.n |->
        LET cell == gram_cell(st.reg, st.ac, k - 1)
        IN  [x |-> cell[1], y |-> cell[2],
             v |-> <<st.bytes[2 * k], st.bytes[2 * k + 1]>>]]

\* one event of the driver, seen by the controller
ctrl_event(c, e) ==
    CASE e.op = "rst" /\ e.a = PIN_ACTIVE ->
            [ctrl_reset EXCEPT !.cs = c.cs]
      [] e.op = "cs" /\ e.a = PIN_ACTIVE ->
            [c EXCEPT !.cs = PIN_ACTIVE, !.frame = <<>>]
      [] e.op = "cs" /\ e.a = PIN_INACTIVE ->
            IF c.cs = PIN_ACTIVE
            THEN [ctrl_frame(c, c.frame) EXCEPT !.cs = PIN_INACTIVE,
                                                !.frame = <<>>]
            ELSE c
      [] IsSpiEv(e) ->
            IF c.cs = PIN_ACTIVE
            THEN [c EXCEPT !.frame = c.frame \o e.d]
            ELSE c
      [] OTHER -> c

\* the controller after events[lo..hi], in order
RECURSIVE ctrl_run(_, _, _, _)
ctrl_run(c, events, lo, hi) ==
    IF lo > hi THEN c
    ELSE IF lo = hi THEN ctrl_event(c, events[lo])
    ELSE LET mid  == (lo + hi) \div 2
             left == ctrl_run(c, events, lo, mid)
         IN  \* the test makes TLC evaluate the first half first
             IF left.cs \in {PIN_ACTIVE, PIN_INACTIVE}
             THEN ctrl_run(left, events, mid + 1, hi)
             ELSE left

\* the controller after the events of one public call
ctrl_after(c, events) ==
    LET wires == SelectSeq(events, IsWireEv)
    IN  ctrl_run([c EXCEPT !.streams = <<>>], wires, 1, Len(wires))

----------------------------------------------------------------------------
(* Inputs *)

\* colours of the drawn buffers
Palette ==
    << <<255, 255, 255>>, <<0, 0, 0>>, <<8, 4, 8>>, <<18, 52, 86>>,
       <<255, 0, 0>>, <<0, 255, 0>>, <<7, 3, 249>> >>

\* the w x h buffer whose pixels run through the palette, row by row
PatternBuf(w, h) ==
    [w |-> w, h |-> h,
     px |-> [r \in 1..h |-> [c \in 1..w |->
               Palette[(((r - 1) * w + (c - 1)) % Len(Palette)) + 1]]]]

SmallBuffers ==
    {PatternBuf(w, h) : w \in 1..MaxW, h \in 1..MaxH}

\* requested origins: off the left/top edge, inside, on and past the
\* right/bottom edge
Origins ==
    { <<-5, -5>>, <<-5, 310>>, <<20, 100>>, <<238, 318>>, <<239, 319>>,
      <<240, 320>>, <<239, 100>>, <<20, 319>>, <<241, 5>> }

\* a 50 x 50 image hanging over the left and the bottom edge, and a row
\* wider than the panel hanging over the left and the top edge
LargeDraws ==
    { [x |-> -5, y |-> 310, buf |-> PatternBuf(50, 50)],
      [x |-> -5, y |-> -5,  buf |-> PatternBuf(241, 1)] }

Draws ==
    {[x |-> o[1], y |-> o[2], buf |-> b] : o \in Origins, b \in SmallBuffers}
    \cup LargeDraws

\* sample_ili9328_graph.py: a white 240 x 320 background, a 200 x 150 graph
Background == PatternBuf(240, 320)
Graph      == PatternBuf(200, 150)

\* speeds given at construction, and speeds set later
Speeds == {DefaultSpeedHz, SampleSpeedHz}
SetSpeeds == Speeds \cup {MaxSpeedHz}

----------------------------------------------------------------------------
(* The driver object *)

Call(op, x, y, buf) == [op |-> op, x |-> x, y |-> y, buf |-> buf]

\* Ili9328Spi.__init__
Init ==
    /\ spi_speed_hz \in Speeds
    /\ IMAGE_WIDTH = PanelWidth
    /\ IMAGE_HEIGHT = PanelHeight
    /\ BITS_PER_PIXEL = PanelBpp
    /\ call = Call("__init__", 0, 0, NoBuf)
    /\ log = init_ili9328(spi_speed_hz)
    /\ result = <<>>
    /\ ctrl = ctrl_after(ctrl_reset, log)

Fields == <<IMAGE_WIDTH, IMAGE_HEIGHT, BITS_PER_PIXEL>>

\* Ili9328Spi.set_spi_speed_hz
SetSpiSpeedHz(speed) ==
    /\ spi_speed_hz' = speed
    /\ call' = Call("set_spi_speed_hz", speed, 0, NoBuf)
    /\ log' = <<>>
    /\ result' = <<>>
    /\ ctrl' = ctrl_after(ctrl, log')
    /\ UNCHANGED Fields

\* faulty variant of GetDrawImageSize: height and width are exchanged
GetDrawImageSize_swapped ==
    /\ call' = Call("get_draw_image_size", 0, 0, NoBuf)
    /\ log' = <<>>
    /\ result' = <<IMAGE_HEIGHT, IMAGE_WIDTH>>
    /\ ctrl' = ctrl_after(ctrl, log')
    /\ UNCHANGED <<spi_speed_hz, Fields>>

\* Ili9328Spi.get_draw_image_size
GetDrawImageSize ==
    /\ call' = Call("get_draw_image_size", 0, 0, NoBuf)
    /\ log' = <<>>
    /\ result' = <<IMAGE_WIDTH, IMAGE_HEIGHT>>
    /\ ctrl' = ctrl_after(ctrl, log')
    /\ UNCHANGED <<spi_speed_hz, Fields>>

\* Ili9328Spi.image
Image(buf) ==
    /\ call' = Call("image", 0, 0, buf)
    /\ log' = image(buf, spi_speed_hz, IMAGE_WIDTH, IMAGE_HEIGHT)
    /\ result' = <<>>
    /\ ctrl' = ctrl_after(ctrl, log')
    /\ UNCHANGED <<spi_speed_hz, Fields>>

\* Ili9328Spi.block_image
BlockImage(x0, y0, buf) ==
    /\ call' = Call("block_image", x0, y0, buf)
    /\ log' = block_image(x0, y0, buf, spi_speed_hz, IMAGE_WIDTH, IMAGE_HEIGHT)
    /\ result' = <<>>
    /\ ctrl' = ctrl_after(ctrl, log')
    /\ UNCHANGED <<spi_speed_hz, Fields>>

DoSetSpiSpeedHz == \E speed \in SetSpeeds : SetSpiSpeedHz(speed)
DoImage == \E buf \in SmallBuffers : Image(buf)
DoBlockImage == \E d \in Draws : BlockImage(d.x, d.y, d.buf)

\* sample_ili9328_graph.py draw_graph: the calls it makes on a new driver,
\* in its order
SampleBackground ==
    /\ call.op = "__init__"
    /\ Image(Background)

SampleGraph ==
    /\ call.op = "image"
    /\ call.buf = Background
    /\ BlockImage(20, 100, Graph)

Next ==
    \/ DoSetSpiSpeedHz
    \/ GetDrawImageSize
    \/ DoImage
    \/ DoBlockImage
    \/ SampleBackground
    \/ SampleGraph

Spec == Init /\ [][Next]_vars

----------------------------------------------------------------------------
(* Pixel conversion on its own: the caller holds a 1 x 1 image of any      *)
(* colour of the sweep and draws it on a new driver.                       *)

BitEdges == {0, 3, 4, 7, 8, 31, 32, 128, 248, 251, 252, 255}

PixelSweep ==
    {<<r, g, b>> : r \in BitEdges, g \in BitEdges, b \in BitEdges}
    \cup {Palette[i] : i \in 1..Len(Palette)}
    \cup UNION {{<<v, 0, 0>>, <<0, v, 0>>, <<0, 0, v>>, <<v, 255, 255>>,
                 <<255, v, 255>>, <<255, 255, v>>, <<v, v, v>>} : v \in 0..255}

PixelBuf(p) == [w |-> 1, h |-> 1, px |-> << <<p>> >>]

InitPixel ==
    /\ spi_speed_hz = DefaultSpeedHz
    /\ IMAGE_WIDTH = PanelWidth
    /\ IMAGE_HEIGHT = PanelHeight
    /\ BITS_PER_PIXEL = PanelBpp
    /\ log = init_ili9328(spi_speed_hz)
    /\ result = <<>>
    /\ ctrl = ctrl_after(ctrl_reset, log)
    /\ call \in {Call("caller_image", 0, 0, PixelBuf(p)) : p \in PixelSweep}

DrawCallerImage ==
    /\ call.op = "caller_image"
    /\ BlockImage(call.x, call.y, call.buf)

NextPixel == DrawCallerImage

SpecPixel == InitPixel /\ [][NextPixel]_vars

----------------------------------------------------------------------------
(* The driver with failing SPI and GPIO steps.  The callers of this         *)
(* repository (sample_ili9328_graph.py, sample_ili9328_sysmonitor.py) catch *)
(* no exception: a call that raises ends the script, and a constructor that *)
(* raises leaves the caller without an object.                              *)

\* the caller is still running and holds the object
Usable == ~Raised(log)

\* the draws of the callers: a graph block inside the panel, a block at the
\* last cell, and full images
FaultBuffers == {PatternBuf(1, 1), PatternBuf(2, 2)}
FaultOrigins == { <<20, 100>>, <<239, 319>> }

\* Ili9328Spi.__init__ with a step of init_ili9328 failing, or none
InitFail ==
    /\ spi_speed_hz = DefaultSpeedHz
    /\ IMAGE_WIDTH = PanelWidth
    /\ IMAGE_HEIGHT = PanelHeight
    /\ BITS_PER_PIXEL = PanelBpp
    /\ call = Call("__init__", 0, 0, NoBuf)
    /\ result = <<>>
    /\ \E i \in {0} \cup FaultSites(init_ili9328(spi_speed_hz)) :
          log = Inject(init_ili9328(spi_speed_hz), i)
    /\ ctrl = ctrl_after(ctrl_reset, log)

\* Ili9328Spi.image with the step at place i failing
ImageFail(buf, i) ==
    /\ call' = Call("image", 0, 0, buf)
    /\ log' = Inject(image(buf, spi_speed_hz, IMAGE_WIDTH, IMAGE_HEIGHT), i)
    /\ result' = <<>>
    /\ ctrl' = ctrl_after(ctrl, log')
    /\ UNCHANGED <<spi_speed_hz, Fields>>

\* Ili9328Spi.block_image with the step at place i failing
BlockImageFail(x0, y0, buf, i) ==
    /\ call' = Call("block_image", x0, y0, buf)
    /\ log' = Inject(block_image(x0, y0, buf, spi_speed_hz,
                                 IMAGE_WIDTH, IMAGE_HEIGHT), i)
    /\ result' = <<>>
    /\ ctrl' = ctrl_after(ctrl, log')
    /\ UNCHANGED <<spi_speed_hz, Fields>>

DoImageFail ==
    /\ Usable
    /\ \E buf \in FaultBuffers :
          \E i \in {0} \cup FaultSites(image(buf, spi_speed_hz,
                                             IMAGE_WIDTH, IMAGE_HEIGHT)) :
             ImageFail(buf, i)

DoBlockImageFail ==
    /\ Usable
    /\ \E o \in FaultOrigins : \E buf \in FaultBuffers :
          \E i \in {0} \cup FaultSites(block_image(o[1], o[2], buf,
                            spi_speed_hz, IMAGE_WIDTH, IMAGE_HEIGHT)) :
             BlockImageFail(o[1], o[2], buf, i)

UsableSetSpiSpeedHz == Usable /\ DoSetSpiSpeedHz
UsableGetDrawImageSize == Usable /\ GetDrawImageSize

NextFail ==
    \/ UsableSetSpiSpeedHz
    \/ UsableGetDrawImageSize
    \/ DoImageFail
    \/ DoBlockImageFail

SpecFail == InitFail /\ [][NextFail]_vars

----------------------------------------------------------------------------
(* Observations on the log of the most recent call *)

IsDraw == call.op \in {"block_image", "image"}

\* the transfers on the SPI bus, in order
SpiTransfers == SelectSeq(log, IsSpiEv)

\* the chip-select changes and transfers, in order
BusTraffic == SelectSeq(log, IsBusEv)

\* the index of the event that ends the helper call entered at log[i]
LeaveOf(i) ==
    CHOOSE j \in (i + 1)..Len(log) :
        /\ log[j].op \in {"ret", "raise"}
        /\ \A k \in (i + 1)..(j - 1) : log[k].op \notin {"ret", "raise"}

\* the bus traffic of the helper call entered at log[i]
BusOfCall(i) == SelectSeq(SubSeq(log, i, LeaveOf(i)), IsBusEv)

\* the values the bus carried to register a: a data frame after the index
\* frame of a
Written(a) ==
    LET F == SpiTransfers
    IN  { F[i + 1].d[2] * 256 + F[i + 1].d[3] :
            i \in { j \in 1..(Len(F) - 1) :
                      /\ F[j].d = <<112, a \div 256, a % 256>>
                      /\ Len(F[j + 1].d) = 3
                      /\ F[j + 1].d[1] = 114 } }

\* the helper calls of the most recent call, in order
HelperCalls ==
    SelectSeq(log, LAMBDA e : e.op \in {"write_cmd", "write_gram"})

NoError == ~Raised(log)

----------------------------------------------------------------------------
(* C1: every write_cmd(addr, value) is on the bus exactly: CS active,       *)
(* [0x70, addr_high, addr_low], CS inactive, CS active,                     *)
(* [0x72, value_high, value_low], CS inactive; nothing else in between.     *)
C1_WriteCmdFraming ==
    \A i \in 1..Len(log) :
        log[i].op = "write_cmd" =>
            LET addr  == log[i].a
                value == log[i].d[1]
            IN  BusOfCall(i) =
                  << Ev("cs", 0, <<>>),
                     Ev("writebytes", 0, <<112, addr \div 256, addr % 256>>),
                     Ev("cs", 1, <<>>),
                     Ev("cs", 0, <<>>),
                     Ev("writebytes", 0, <<114, value \div 256, value % 256>>),
                     Ev("cs", 1, <<>>) >>

\* a draw whose register writes carry a value with a non-zero high byte
C1_Witness ==
    /\ call.op = "block_image"
    /\ \E i \in 1..Len(log) :
          /\ log[i].op = "write_cmd"
          /\ log[i].d[1] = 319
          /\ BusOfCall(i)[5].d = <<114, 1, 63>>

----------------------------------------------------------------------------
\* the two bytes of RGB565 for an RGB888 pixel, by place value
Pack(p) ==
    << (p[1] \div 8) * 8 + (p[2] \div 32),
       (p[3] \div 8) + ((p[2] \div 4) % 8) * 32 >>

\* the frame of the bulk transfer of the most recent draw
StreamOf(events) ==
    LET F == SelectSeq(events, LAMBDA e : e.op = "writebytes2")
    IN  IF Len(F) = 1 THEN F[1].d ELSE <<>>

\* the index frames on the bus, in order, as register addresses
IndexFrames ==
    LET F == SelectSeq(SpiTransfers,
                       LAMBDA e : Len(e.d) = 3 /\ e.d[1] = 112)
    IN  [i \in 1..Len(F) |-> F[i].d[2] * 256 + F[i].d[3]]

(* C2 as stated: one block_image call issues exactly 4 window-register      *)
(* writes followed by exactly 1 bulk pixel stream, and no other register    *)
(* writes.                                                                  *)
C2_Original ==
    IsDraw =>
        /\ Len(HelperCalls) = 5
        /\ \A i \in 1..4 :
              /\ HelperCalls[i].op = "write_cmd"
              /\ HelperCalls[i].a \in {80, 81, 82, 83}
        /\ HelperCalls[5].op = "write_gram"

(* C2 amended: one block_image call issues exactly 6 register writes, the   *)
(* GRAM address counter 0x20, 0x21 and then the 4 window registers 0x50,    *)
(* 0x52, 0x51, 0x53, followed by exactly 1 bulk pixel stream (GRAM select   *)
(* 0x22 and one data frame), in that order, and no other register writes.   *)
C2_SixWritesThenStream ==
    IsDraw =>
        /\ [i \in 1..Len(HelperCalls) |->
               <<HelperCalls[i].op, HelperCalls[i].a>>]
           = << <<"write_cmd", 32>>, <<"write_cmd", 33>>, <<"write_cmd", 80>>,
                <<"write_cmd", 82>>, <<"write_cmd", 81>>, <<"write_cmd", 83>>,
                <<"write_gram", 0>> >>
        /\ IndexFrames = <<32, 33, 80, 82, 81, 83, 34>>
        /\ Len(SpiTransfers) = 14
        /\ \A i \in 1..14 : (SpiTransfers[i].op = "writebytes2") <=> (i = 14)

\* a block_image call that wrote the address counter registers too
C2_Witness ==
    /\ call.op = "block_image"
    /\ Len(HelperCalls) = 7
    /\ HelperCalls[1].a = 32
    /\ HelperCalls[2].a = 33

----------------------------------------------------------------------------
\* the pixel and the stream of a draw of a 1 x 1 image
OnePixelDrawn ==
    /\ call.op = "block_image"
    /\ call.buf.w = 1
    /\ call.buf.h = 1

(* C3: for every R, G, B in 0..255 the stream carries                       *)
(* byte0 = ((R>>3)<<3) | ((G>>2)>>3) and byte1 = (B>>3) | (((G>>2)&7)<<5),  *)
(* both in 0..255 with no 8-bit overflow: the top 5 bits of byte0 are R>>3, *)
(* its low 3 bits the top 3 bits of G>>2, the low 5 bits of byte1 are B>>3, *)
(* its top 3 bits the low 3 bits of G>>2; (255,255,255) gives (255,255),    *)
(* (0,0,0) gives (0,0) and (8,4,8) gives (0x08,0x21).                       *)
C3_PixelBytes ==
    OnePixelDrawn =>
        LET p  == call.buf.px[1][1]
            s  == StreamOf(log)
            r5 == p[1] \div 8
            g6 == p[2] \div 4
            b5 == p[3] \div 8
        IN  /\ Len(s) = 3
            /\ s[2] \in 0..255
            /\ s[3] \in 0..255
            /\ s[2] = BitOr(r5 * 8, g6 \div 8)
            /\ s[3] = BitOr(b5, BitAnd(g6, 7) * 32)
            /\ s[2] \div 8 = r5
            /\ s[2] % 8 = g6 \div 8
            /\ s[3] % 32 = b5
            /\ s[3] \div 32 = g6 % 8
            /\ (p = <<255, 255, 255>> => <<s[2], s[3]>> = <<255, 255>>)
            /\ (p = <<0, 0, 0>> => <<s[2], s[3]>> = <<0, 0>>)
            /\ (p = <<8, 4, 8>> => <<s[2], s[3]>> = <<8, 33>>)

\* the pixel (0x08, 0x04, 0x08) was drawn as (0x08, 0x21)
C3_Witness ==
    /\ OnePixelDrawn
    /\ call.buf.px[1][1] = <<8, 4, 8>>
    /\ StreamOf(log) = <<114, 8, 33>>

(* C4: for every R, G, B in 0..255, in the 16-bit value byte0*256 + byte1   *)
(* bits 15..11 are R>>3, bits 10..5 are G>>2 and bits 4..0 are B>>3.        *)
C4_DecodeRecoversChannels ==
    OnePixelDrawn =>
        LET p == call.buf.px[1][1]
            s == StreamOf(log)
            v == s[2] * 256 + s[3]
        IN  /\ Len(s) = 3
            /\ v \div 2048 = p[1] \div 8
            /\ (v \div 32) % 64 = p[2] \div 4
            /\ v % 32 = p[3] \div 8

\* a pixel with three different non-zero channels was drawn and decodes
C4_Witness ==
    /\ OnePixelDrawn
    /\ call.buf.px[1][1] = <<18, 52, 86>>
    /\ LET s == StreamOf(log)
           v == s[2] * 256 + s[3]
       IN  <<v \div 2048, (v \div 32) % 64, v % 32>> = <<2, 13, 10>>

----------------------------------------------------------------------------
\* the most recent call is block_image(x, y, <w x h buffer>)
BlockImageOf(x, y, w, h) ==
    /\ call.op = "block_image"
    /\ call.x = x /\ call.y = y
    /\ call.buf.w = w /\ call.buf.h = h

\* the window the bus carried to the controller is {x0, y0, x1, y1}
WindowWritten(x0, y0, x1, y1) ==
    /\ Written(80) = {x0}
    /\ Written(82) = {y0}
    /\ Written(81) = {x1}
    /\ Written(83) = {y1}

C6_Original ==
    BlockImageOf(-5, 310, 50, 50) =>
        /\ Written(80) = {0}
        /\ Written(82) = {319}
        /\ Written(83) = {319}

(* C6 amended: for origin (-5, 310) and a 50x50 buffer the x start is       *)
(* clamped to 0 and the y start stays 310 (it is inside 0..319); the ends   *)
(* are x1 = 49 and y1 = 319 (clamped from 359): a window of 50 columns and  *)
(* 10 rows, not a single row.                                               *)
C6_WindowOfOverhangingBuffer ==
    BlockImageOf(-5, 310, 50, 50) =>
        /\ WindowWritten(0, 310, 49, 319)
        /\ Written(32) = {0}
        /\ Written(33) = {310}

\* the 50x50 buffer was drawn at (-5, 310) with vertical start 310
C6_Witness ==
    /\ BlockImageOf(-5, 310, 50, 50)
    /\ Written(82) = {310}
    /\ Written(83) = {319}

(* C7: for any integer origin and any non-empty buffer every coordinate     *)
(* written to the window registers satisfies 0 <= x0 <= x1 <= 239 and       *)
(* 0 <= y0 <= y1 <= 319.                                                    *)
C7_WindowInsidePanel ==
    (IsDraw /\ call.buf.w >= 1 /\ call.buf.h >= 1) =>
        /\ \A a \in {32, 33, 80, 81, 82, 83} : Cardinality(Written(a)) = 1
        /\ \A x0 \in Written(80) : \A x1 \in Written(81) :
              0 <= x0 /\ x0 <= x1 /\ x1 <= 239
        /\ \A y0 \in Written(82) : \A y1 \in Written(83) :
              0 <= y0 /\ y0 <= y1 /\ y1 <= 319
        /\ \A x \in Written(32) : 0 <= x /\ x <= 239
        /\ \A y \in Written(33) : 0 <= y /\ y <= 319

\* an origin past the right and bottom edge was drawn at the last cell
C7_Witness ==
    /\ call.op = "block_image"
    /\ call.x > 239 /\ call.y > 319
    /\ call.buf.w > 1 /\ call.buf.h > 1
    /\ WindowWritten(239, 319, 239, 319)

----------------------------------------------------------------------------
\* the single value the bus carried to register a
TheWritten(a) == CHOOSE v \in Written(a) : TRUE

\* the drawn buffer extends past the right / bottom panel edge
PastRight  == IsDraw /\ Written(80) # {} /\ TheWritten(80) + call.buf.w > 240
PastBottom == IsDraw /\ Written(82) # {} /\ TheWritten(82) + call.buf.h > 320

\* the window ends are clamped to the panel boundary where the buffer
\* extends past it
EndsClamped ==
    /\ PastRight  => Written(81) = {239}
    /\ PastBottom => Written(83) = {319}

\* the number of cells of the window the bus carried to the controller
WindowWidth  == TheWritten(81) - TheWritten(80) + 1
WindowHeight == TheWritten(83) - TheWritten(82) + 1
WindowArea   == WindowWidth * WindowHeight

\* the source pixel at column dx, row dy (0-based) of the drawn buffer
Source(dx, dy) == call.buf.px[dy + 1][dx + 1]

----------------------------------------------------------------------------
\* d is 0x72 and then the two bytes of every pixel of buf, row by row:
\* 1 + 2*w*h bytes, pixel (r, c) at offset 2*(r*w + c) after the 0x72
IsRowMajorStream(d, buf) ==
    d = [k \in 1..(1 + 2 * buf.w * buf.h) |->
            IF k = 1 THEN 114
            ELSE LET pixel == (k - 2) \div 2
                     r == pixel \div buf.w
                     c == pixel % buf.w
                 IN  Pack(buf.px[r + 1][c + 1])[((k - 2) % 2) + 1]]

(* C9: write_gram of a packed h x w x 2 buffer is on the bus exactly two    *)
(* CS-bracketed transactions: the 3 bytes [0x70, 0x00, 0x22], then one      *)
(* frame of 1 + 2*w*h bytes: 0x72 and every pixel's [byte0, byte1] in       *)
(* row-major order, no padding, no per-pixel framing.                       *)
C9_GramStream ==
    \A i \in 1..Len(log) :
        log[i].op = "write_gram" =>
            /\ [k \in 1..Len(BusOfCall(i)) |->
                   IF k = 5 THEN Ev(BusOfCall(i)[k].op, 0, <<>>)
                   ELSE BusOfCall(i)[k]]
               = << Ev("cs", 0, <<>>),
                    Ev("writebytes", 0, <<112, 0, 34>>),
                    Ev("cs", 1, <<>>),
                    Ev("cs", 0, <<>>),
                    Ev("writebytes2", 0, <<>>),
                    Ev("cs", 1, <<>>) >>
            /\ IsRowMajorStream(BusOfCall(i)[5].d, call.buf)

\* a 2 x 2 buffer was streamed as 9 bytes, first row first
C9_Witness ==
    /\ IsDraw
    /\ call.buf.w = 2 /\ call.buf.h = 2
    /\ StreamOf(log) =
          <<114>> \o Pack(Source(0, 0)) \o Pack(Source(1, 0))
                  \o Pack(Source(0, 1)) \o Pack(Source(1, 1))
    /\ Pack(Source(1, 0)) # Pack(Source(0, 1))

----------------------------------------------------------------------------
(* C10: image(buffer) produces exactly the chip-select changes and SPI      *)
(* bytes of block_image(0, 0, buffer), and performs no size check: a buffer *)
(* that is not 240 x 320 is drawn without an error.                         *)
C10_ImageIsBlockImageAtOrigin ==
    call.op = "image" =>
        /\ BusTraffic =
              SelectSeq(block_image(0, 0, call.buf, spi_speed_hz,
                                    IMAGE_WIDTH, IMAGE_HEIGHT), IsBusEv)
        /\ NoError
        /\ Written(32) = {0} /\ Written(33) = {0}
        /\ Written(80) = {0} /\ Written(82) = {0}
        /\ Len(StreamOf(log)) = 1 + 2 * call.buf.w * call.buf.h

\* image drew a buffer smaller than the panel
C10_Witness ==
    /\ call.op = "image"
    /\ call.buf.w = 2 /\ call.buf.h = 1
    /\ NoError
    /\ Len(StreamOf(log)) = 5
    /\ WindowWritten(0, 0, 1, 0)

----------------------------------------------------------------------------
\* the number of events of the most recent call that satisfy Test
CountEv(Test(_)) == Len(SelectSeq(log, Test))

\* runs of init_ili9328 and drives of the reset line in the most recent call
InitRuns    == CountEv(LAMBDA e : e.op = "init_ili9328")
ResetDrives == CountEv(LAMBDA e : e.op \in {"rst", "rst_open"})
ResetPulses == CountEv(LAMBDA e : e.op = "rst" /\ e.a = PIN_ACTIVE)

\* construction has completed: __init__ returned the object
Ready == call.op # "__init__" \/ ~Raised(log)

\* the public operations on a constructed driver
PublicOps == {"image", "block_image", "set_spi_speed_hz", "get_draw_image_size"}

(* C11: over the lifetime of one driver object, under any sequence of       *)
(* image, block_image, set_spi_speed_hz and get_draw_image_size, the        *)
(* initialization sequence and the reset pulse each run exactly once,       *)
(* inside construction; after construction the driver is Ready and no       *)
(* operation drives the reset line or runs the initialization again.        *)
C11_InitializedOnce ==
    /\ [](/\ Ready
          /\ call.op = "__init__" =>
                /\ InitRuns = 1
                /\ ResetPulses = 1
                /\ log[1].op = "init_ili9328"
                /\ Len(SpiTransfers) = 2 * Len(SelectSeq(init_sequence,
                                                LAMBDA s : s.k = "write"))
          /\ call.op # "__init__" =>
                /\ call.op \in PublicOps
                /\ InitRuns = 0
                /\ ResetDrives = 0)
    /\ [][call'.op # "__init__"]_vars

\* a draw on the constructed driver that left the reset line alone
C11_Witness ==
    /\ call.op = "image"
    /\ ctrl.reg[81] = 1
    /\ NoError
    /\ InitRuns = 0
    /\ ResetDrives = 0
    /\ Len(SpiTransfers) = 14

----------------------------------------------------------------------------
\* a step of the most recent call failed
HasFail == CountEv(IsFail) > 0

\* the register writes of the initialization, as <<address, value>>
InitWrites ==
    LET Ws == SelectSeq(init_sequence, LAMBDA s : s.k = "write")
    IN  [i \in 1..Len(Ws) |-> <<Ws[i].a, Ws[i].v>>]

\* the register writes that the bus carried completely, in order
WritesOnBus ==
    LET F == SpiTransfers
    IN  [i \in 1..(Len(F) \div 2) |->
            << F[2 * i - 1].d[2] * 256 + F[2 * i - 1].d[3],
               F[2 * i].d[2] * 256 + F[2 * i].d[3] >>]

ConstructionFailed == call.op = "__init__" /\ HasFail

----------------------------------------------------------------------------
\* the places of the log where a step failed
FailPlaces == {i \in 1..Len(log) : IsFail(log[i])}

(* C13: if a bus open, bus transfer or GPIO write fails at any point inside *)
(* write_cmd, write_gram, block_image or image, the failure is surfaced to  *)
(* the caller of the operation in progress, the failed step is not retried, *)
(* and the operation issues no further SPI bytes after the failure.         *)
C13_FailureSurfaces ==
    HasFail =>
        /\ Cardinality(FailPlaces) = 1
        /\ Raised(log)
        /\ \A f \in FailPlaces : \A j \in (f + 1)..Len(log) :
              /\ ~IsSpiEv(log[j])
              /\ ~Failable(log[j])
              /\ log[j].op \in {"cs_close", "rst_close", "raise"}
        /\ Cardinality({j \in 1..Len(log) : log[j].op = "raise"}) = 1
        \* only the helper calls before the failing one returned
        /\ CountEv(LAMBDA e : e.op = "ret")
              = Max(Len(HelperCalls) - 1, 0)

\* the transfer of the pixel stream failed inside image: six register
\* writes and the GRAM-select frame went out, nothing after
C13_Witness ==
    /\ call.op = "image"
    /\ HasFail
    /\ \E f \in FailPlaces : log[f].op = "fail_writebytes2"
    /\ Len(SpiTransfers) = 13
    /\ Raised(log)

----------------------------------------------------------------------------
\* the controller's wires and registers: the controller without the record
\* of the streams of the most recent call
Wires(c) == [c EXCEPT !.streams = <<>>]

(* C14: set_spi_speed_hz(hz) changes only the stored speed and causes no CS *)
(* change, no SPI open and no SPI bytes; every bus open of a later          *)
(* write_cmd or write_gram is configured with the most recently set speed   *)
(* and SPI mode 3 before any byte is transferred.                           *)
C14_SpeedTakesEffectOnNextOpen ==
    /\ [](/\ call.op = "set_spi_speed_hz" =>
                /\ log = <<>>
                /\ result = <<>>
                /\ spi_speed_hz = call.x
          /\ \A i \in 1..Len(log) :
                /\ log[i].op = "spi_open" =>
                      /\ i + 2 <= Len(log)
                      /\ log[i + 1] = Ev("spi_speed", spi_speed_hz, <<>>)
                      /\ log[i + 2] = Ev("spi_mode", 3, <<>>)
                /\ IsSpiEv(log[i]) =>
                      \E o \in 1..(i - 3) :
                          /\ log[o].op = "spi_open"
                          /\ \A k \in o..i : log[k].op # "spi_close")
    /\ [][/\ call'.op = "set_spi_speed_hz" =>
                /\ UNCHANGED Fields
                /\ Wires(ctrl') = Wires(ctrl)
          /\ call'.op # "set_spi_speed_hz" =>
                UNCHANGED spi_speed_hz]_vars

\* a draw whose seven bus opens were configured with the 10 MHz that only
\* set_spi_speed_hz gives
C14_Witness ==
    /\ call.op = "block_image"
    /\ spi_speed_hz = MaxSpeedHz
    /\ CountEv(LAMBDA e : e.op = "spi_open") = 7
    /\ CountEv(LAMBDA e : e = Ev("spi_speed", MaxSpeedHz, <<>>)) = 7
    /\ Len(SpiTransfers) = 14

----------------------------------------------------------------------------
BusOpens  == CountEv(LAMBDA e : e.op = "spi_open")
BusCloses == CountEv(LAMBDA e : e.op = "spi_close")

(* C15 as stated: the bus session is opened exactly once, at driver         *)
(* construction, and that session is reused for every register write and   *)
(* pixel stream; no write_cmd or write_gram opens or closes the bus.        *)
C15_Original ==
    /\ call.op = "__init__" => BusOpens = 1 /\ BusCloses = 0
    /\ call.op # "__init__" => BusOpens = 0 /\ BusCloses = 0

(* C15 amended: no bus session is kept: every write_cmd and every           *)
(* write_gram opens the bus itself as its first step and uses that session  *)
(* for its own two frames only, and a call that returns has closed it as    *)
(* its last step; a construction in which no step fails opens and closes    *)
(* one session for each of its 49 register writes, a draw one for each of   *)
(* its 6 register writes and one for its pixel stream.                      *)
C15_SessionPerWrite ==
    /\ \A i \in 1..Len(log) :
          log[i].op \in {"write_cmd", "write_gram"} =>
              LET j  == LeaveOf(i)
                  ev == SubSeq(log, i, j)
                  n(Test(_)) == Len(SelectSeq(ev, Test))
              IN  /\ ev[2].op \in {"spi_open", "fail_spi_open"}
                  /\ n(LAMBDA e : e.op \in {"spi_open", "fail_spi_open"}) = 1
                  /\ n(IsSpiEv) > 0 => ev[2].op = "spi_open"
                  /\ log[j].op = "ret" =>
                        /\ ev[Len(ev) - 1].op = "spi_close"
                        /\ n(LAMBDA e : e.op = "spi_close") = 1
                        /\ n(IsSpiEv) = 2
    /\ CountEv(LAMBDA e : e.op \in {"spi_open", "fail_spi_open"})
          = Len(HelperCalls)
    /\ (call.op = "__init__" /\ ~HasFail) => BusOpens = 49 /\ BusCloses = 49
    /\ (IsDraw /\ ~HasFail) => BusOpens = 7 /\ BusCloses = 7

\* a draw that opened and closed the bus seven times
C15_Witness ==
    /\ call.op = "block_image"
    /\ ~HasFail
    /\ BusOpens = 7
    /\ BusCloses = 7
    /\ log[2].op = "write_cmd"
    /\ log[3].op = "spi_open"

----------------------------------------------------------------------------
(* C16: in every reachable state after construction, after any sequence of  *)
(* draw and set_spi_speed_hz calls, get_draw_image_size returns (240, 320)  *)
(* and causes no bus or GPIO activity; no operation changes the panel       *)
(* width, height or bits per pixel.                                         *)
C16_PanelGeometryFixed ==
    /\ [](/\ Fields = <<240, 320, 16>>
          /\ call.op = "get_draw_image_size" =>
                /\ result = <<240, 320>>
                /\ log = <<>>)
    /\ [][/\ UNCHANGED Fields
          /\ call'.op = "get_draw_image_size" =>
                /\ Wires(ctrl') = Wires(ctrl)
                /\ UNCHANGED spi_speed_hz]_vars

\* the size was asked for after a draw that had set a window of one cell
\* and after the speed had been set
C16_Witness ==
    /\ call.op = "get_draw_image_size"
    /\ result = <<240, 320>>
    /\ log = <<>>
    /\ spi_speed_hz = MaxSpeedHz
    /\ ctrl.reg[81] = ctrl.reg[80]
    /\ ctrl.reg[83] = ctrl.reg[82]

----------------------------------------------------------------------------
\* the places, among the transfers of the most recent call, of the index
\* frame of register a
IndexPlaces(a) ==
    {i \in 1..Len(SpiTransfers) :
        SpiTransfers[i].d = <<112, a \div 256, a % 256>>}

(* C17: in every block_image call the window registers are written in the  *)
(* fixed order horizontal start (0x50), vertical start (0x52), horizontal   *)
(* end (0x51), vertical end (0x53), both start registers before either end  *)
(* register, and all of them before the GRAM-select frame of the stream.    *)
C17_WindowOrder ==
    IsDraw =>
        /\ SelectSeq(IndexFrames, LAMBDA a : a \in {80, 81, 82, 83, 34})
              = <<80, 82, 81, 83, 34>>
        /\ \A s \in IndexPlaces(80) \cup IndexPlaces(82) :
              \A e \in IndexPlaces(81) \cup IndexPlaces(83) :
                  \* the data frame of the start is out before the end's index
                  s + 1 < e
        /\ \A w \in UNION {IndexPlaces(a) : a \in {80, 81, 82, 83}} :
              \A g \in IndexPlaces(34) :
                  /\ w + 1 < g
                  /\ SpiTransfers[w + 1].op = "writebytes"
                  /\ SpiTransfers[w + 1].d[1] = 114
        /\ Cardinality(IndexPlaces(34)) = 1

\* a draw whose window has four different coordinates, written in order
C17_Witness ==
    /\ BlockImageOf(20, 100, 2, 2)
    /\ [i \in 5..12 |-> SpiTransfers[i].d] =
          [i \in 5..12 |->
              << <<112, 0, 80>>, <<114, 0, 20>>, <<112, 0, 82>>,
                 <<114, 0, 100>>, <<112, 0, 81>>, <<114, 0, 21>>,
                 <<112, 0, 83>>, <<114, 0, 101>> >>[i - 4]]

----------------------------------------------------------------------------
\* the part of the initialization that a register address belongs to:
\* 1 entry mode and timing, 2 power sequencing, 3 gamma table, 4 GRAM area,
\* 5 partial display and panel control
InitPart(a) ==
    CASE a \in (1..15) \ {7}     -> 1
      [] a \in {7} \cup (16..43) -> 2
      [] a \in 48..61            -> 3
      [] a \in 80..106           -> 4
      [] a \in 128..146          -> 5
      [] OTHER                   -> 0

\* the events on the wires of the display in the most recent call
WireEvents == SelectSeq(log, IsWireEv)

(* C18: initialization first sets CS inactive and drives the reset line     *)
(* inactive, active, inactive, and only then issues register writes; the    *)
(* register writes follow one fixed order (entry mode and timing, power     *)
(* sequencing, gamma table, GRAM area, panel control) in which the default  *)
(* window is the full panel (0x50=0, 0x51=239, 0x52=0, 0x53=319) and the    *)
(* last write is display-on (0x0007 <- 0x0133).                             *)
C18_InitOrder ==
    call.op = "__init__" =>
        LET Ws == WritesOnBus
            n  == Len(Ws)
        IN  /\ SubSeq(WireEvents, 1, 5)
                  = << Ev("cs", 1, <<>>), Ev("rst", 1, <<>>),
                       Ev("rst", 0, <<>>), Ev("rst", 1, <<>>),
                       Ev("cs", 0, <<>>) >>
            /\ CountEv(LAMBDA e : e.op = "rst") = 3
            /\ 2 * n = Len(SpiTransfers)
            /\ \A i \in 1..n :
                  /\ SpiTransfers[2 * i - 1].d[1] = 112
                  /\ SpiTransfers[2 * i].d[1] = 114
            /\ \A i \in 1..(n - 1) : InitPart(Ws[i][1]) \in 1..5
            /\ \A i \in 1..(n - 2) :
                  InitPart(Ws[i][1]) <= InitPart(Ws[i + 1][1])
            /\ \A part \in 1..5 : \E i \in 1..(n - 1) :
                  InitPart(Ws[i][1]) = part
            /\ Ws[3] = <<3, 4144>>
            /\ WindowWritten(0, 0, 239, 319)
            /\ Ws[n] = <<7, 307>>
            /\ \A i \in 1..(n - 1) : Ws[i] # <<7, 307>>
            \* the same writes whatever the speed
            /\ Ws = InitWrites

\* a driver constructed at the sample's speed: reset, then the writes up to
\* display-on
C18_Witness ==
    /\ call.op = "__init__"
    /\ spi_speed_hz = SampleSpeedHz
    /\ WireEvents[3] = Ev("rst", PIN_ACTIVE, <<>>)
    /\ SpiTransfers[1].d = <<112, 0, 1>>
    /\ SpiTransfers[Len(SpiTransfers)].d = <<114, 1, 51>>

----------------------------------------------------------------------------
\* the reset levels, the delays and the register frames of the most recent
\* call, in order
Timeline ==
    SelectSeq(log, LAMBDA e : e.op \in {"rst", "sleep", "writebytes"})

\* the register whose index frame is at place k of the timeline
IndexAt(k) == Timeline[k].d[2] * 256 + Timeline[k].d[3]

\* the places of the delays between register writes
WriteDelays ==
    {k \in 1..Len(Timeline) :
        /\ Timeline[k].op = "sleep"
        /\ \E j \in 1..(k - 1) : Timeline[j].op = "writebytes"}

\* the delays between register writes of the power sequencing: the write
\* before and the write after are of that part
PowerDelays ==
    {k \in WriteDelays :
        /\ k - 2 >= 1 /\ k + 1 <= Len(Timeline)
        /\ Timeline[k - 2].op = "writebytes"
        /\ Timeline[k + 1].op = "writebytes"
        /\ InitPart(IndexAt(k - 2)) = 2
        /\ InitPart(IndexAt(k + 1)) = 2}

\* the reset pulse has a delay of at least 10 ms before and after the
\* active level and at least 50 ms before the first register write
ResetDelaysKept ==
    /\ Len(Timeline) >= 7
    /\ [i \in 1..7 |-> Timeline[i].op]
          = <<"rst", "sleep", "rst", "sleep", "rst", "sleep", "writebytes">>
    /\ <<Timeline[1].a, Timeline[3].a, Timeline[5].a>>
          = <<PIN_INACTIVE, PIN_ACTIVE, PIN_INACTIVE>>
    /\ Timeline[2].a >= 10
    /\ Timeline[4].a >= 10
    /\ Timeline[6].a >= 50

(* C19 as stated: the power-sequencing part of the initialization register  *)
(* sequence contains exactly two delays interleaved between register        *)
(* writes, each of at least 50 ms, and the reset pulse has a delay of at    *)
(* least 10 ms before and after the active level and at least 50 ms of      *)
(* settle time before the first register write.                             *)
C19_Original ==
    call.op = "__init__" =>
        /\ Cardinality(PowerDelays) = 2
        /\ \A k \in PowerDelays : Timeline[k].a >= 50
        /\ ResetDelaysKept

(* C19 amended: the power-sequencing part of the initialization register    *)
(* sequence contains exactly four delays interleaved between register       *)
(* writes, of 200, 50, 50 and 50 ms in this order, each of at least 50 ms,  *)
(* and there is no delay between register writes elsewhere; the reset pulse *)
(* has a delay of at least 10 ms before and after the active level and at   *)
(* least 50 ms of settle time before the first register write.              *)
C19_FourPowerDelays ==
    call.op = "__init__" =>
        /\ Cardinality(PowerDelays) = 4
        /\ \A k \in PowerDelays : Timeline[k].a >= 50
        /\ WriteDelays = PowerDelays
        /\ LET D == SelectSeq([k \in 1..Len(Timeline) |->
                                  IF k \in PowerDelays THEN Timeline[k].a
                                  ELSE 0],
                              LAMBDA ms : ms > 0)
           IN  D = <<200, 50, 50, 50>>
        /\ ResetDelaysKept

\* the constructed driver slept 200 ms after the discharge write 0x0007 <- 1
C19_Witness ==
    /\ call.op = "__init__"
    /\ \E k \in PowerDelays :
          /\ Timeline[k].a = 200
          /\ IndexAt(k - 2) = 7
          /\ Timeline[k - 1].d = <<114, 0, 1>>
          /\ IndexAt(k + 1) = 16

----------------------------------------------------------------------------
\* the chip-select level after events, INACTIVE before the first change
CsAfter(events) ==
    LET cs == SelectSeq(events, LAMBDA e : e.op = "cs")
    IN  IF cs = <<>> THEN PIN_INACTIVE ELSE cs[Len(cs)].a

\* the SPI device is open after events
SpiOpenAfter(events) == Held(events, "spi_open", "spi_close")

\* the helper call entered at log[i] ended by returning, or by the
\* exception of a failed SPI transfer
EndedOrTransferFailed(i) ==
    LET j == LeaveOf(i)
    IN  \/ log[j].op = "ret"
        \/ /\ log[j].op = "raise"
           /\ \E f \in i..j :
                 log[f].op \in {"fail_writebytes", "fail_writebytes2"}

(* C20: whenever write_cmd or write_gram has ended, by returning normally   *)
(* or by propagating a failure of an SPI transfer, chip-select is inactive  *)
(* and the SPI device that the call opened has been closed; SPI bytes are   *)
(* only ever transferred while chip-select is active and the device is      *)
(* open.                                                                    *)
C20_ReleasedWhenEnded ==
    \A i \in 1..Len(log) :
        log[i].op \in {"write_cmd", "write_gram"} =>
            LET j  == LeaveOf(i)
                ev == SubSeq(log, i, j)
            IN  /\ EndedOrTransferFailed(i) =>
                      /\ CsAfter(ev) = PIN_INACTIVE
                      /\ ~SpiOpenAfter(ev)
                /\ \A k \in 1..Len(ev) :
                      IsSpiEv(ev[k]) =>
                          /\ CsAfter(SubSeq(ev, 1, k)) = PIN_ACTIVE
                          /\ SpiOpenAfter(SubSeq(ev, 1, k))

----------------------------------------------------------------------------
(* C21: in block_image the window end is computed from the clamped origin,  *)
(* not from the requested one: for a requested x < 0 the window is          *)
(* {x0 = 0, x1 = min(w - 1, 239)}, and likewise for y with h and 319, so a  *)
(* buffer placed partly off the left or top edge is shifted onto the panel  *)
(* at full width: its off-panel columns and rows are not removed.           *)
C21_EndFromClampedOrigin ==
    call.op = "block_image" =>
        /\ call.x < 0 =>
              /\ Written(80) = {0}
              /\ Written(81) = {Min(call.buf.w - 1, 239)}
              /\ Written(32) = {0}
        /\ call.y < 0 =>
              /\ Written(82) = {0}
              /\ Written(83) = {Min(call.buf.h - 1, 319)}
              /\ Written(33) = {0}
        /\ (call.x < 0 \/ call.y < 0) =>
              \* every pixel is streamed, the off-panel ones first
              /\ IsRowMajorStream(StreamOf(log), call.buf)
              /\ <<StreamOf(log)[2], StreamOf(log)[3]>> = Pack(Source(0, 0))

\* a row of 241 pixels requested at x = -5 got the columns 0..239
WideRowDrawn ==
    /\ BlockImageOf(-5, -5, 241, 1)
    /\ WindowWritten(0, 0, 239, 0)

\* a 50 x 50 buffer requested at x = -5 got the columns 0..49, not 0..44
C21_Witness ==
    /\ BlockImageOf(-5, 310, 50, 50)
    /\ Written(80) = {0}
    /\ Written(81) = {49}
    /\ Len(StreamOf(log)) = 5001

----------------------------------------------------------------------------
(* C22: in every block_image call, before the pixel stream starts, the GRAM *)
(* address-counter registers 0x20 and 0x21 are written with the same values *)
(* as the window start registers 0x50 and 0x52, so the controller's write   *)
(* pointer starts at the top-left corner of the window that was just set;   *)
(* this holds after any earlier sequence of draws: no stream runs with a    *)
(* pointer or a window left over from a previous call.                      *)
C22_PointerAtWindowStart ==
    IsDraw =>
        /\ \A a \in WindowRegs :
              /\ Cardinality(Written(a)) = 1
              /\ Cardinality(IndexPlaces(a)) = 1
              /\ \A w \in IndexPlaces(a) : \A g \in IndexPlaces(34) : w + 1 < g
        /\ Written(32) = Written(80)
        /\ Written(33) = Written(82)
        \* the controller, when the stream arrives
        /\ Len(ctrl.streams) = 1
        /\ ctrl.streams[1].reg = [a \in WindowRegs |-> TheWritten(a)]
        /\ ctrl.streams[1].ac = <<TheWritten(80), TheWritten(82)>>
        /\ LET first == gram_writes(ctrl.streams[1])[1]
           IN  /\ <<first.x, first.y>> = <<TheWritten(80), TheWritten(82)>>
               /\ first.v = Pack(Source(0, 0))

\* a draw at (20, 100) on a controller whose registers an earlier call had
\* left elsewhere: the stream started at (20, 100)
C22_Witness ==
    /\ BlockImageOf(20, 100, 2, 1)
    /\ Written(32) = {20}
    /\ Written(33) = {100}
    /\ ctrl.streams[1].ac = <<20, 100>>
    /\ ctrl.streams[1].reg[81] = 21

====
